---- MODULE Spec2Model ----
(***************************************************************************)
(* A model of prompt_template_parser.py: the transducer                    *)
(* parse_custom_markdown (language directive, substitution passes, the     *)
(* line-grouping loop, document assembly), the collection script of the    *)
(* emitted page, and the command-line driver main.                         *)
(*                                                                         *)
(* Text is a sequence of tokens.  A token is one character of the source   *)
(* alphabet ("a", "[", " ", "\n", ...) or one atom: a fixed run of         *)
(* characters that the program emits (or that an author types) as a        *)
(* whole, such as "<code>".  No atom begins or ends with white space or    *)
(* with a double quote, and no atom holds a character that a later         *)
(* pattern treats specially, so matching on tokens is matching on          *)
(* characters.                                                             *)
(***************************************************************************)
EXTENDS Integers, Sequences, FiniteSets, TLC

VARIABLES
    pc,           \* position in parse_custom_markdown / main / the page
    src,          \* the text parse_custom_markdown was called with
    md,           \* the local md, rewritten by the passes
    lang,         \* the local lang
    button_label, \* the local button_label
    title,        \* the local title
    body_parts,   \* the local body_parts: a sequence of fragments
    lines,        \* the local lines
    i,            \* the line cursor (1-based: the code's i + 1)
    returned,     \* the value returned: [html |-> document, lang |-> code]
    prompt,       \* the page: the string the collection script built
    fs,           \* the driver: path -> content of the file, or Missing
    todo,         \* the driver: the inputs not yet processed
    outArg,       \* the driver: args.output, or NoOutput
    output_file,  \* the driver: output_file of the current input
    answer,       \* the driver: what input() returned for the current input
    log           \* the driver: what happened to each input, in order

vars == <<pc, src, md, lang, button_label, title, body_parts, lines, i,
          returned, prompt, fs, todo, outArg, output_file, answer, log>>

parseVars == <<src, md, lang, button_label, title, body_parts, lines, i, returned>>
driverVars == <<fs, todo, outArg, output_file, answer, log>>

----------------------------------------------------------------------------
(* Tokens *)

Q == "\""
NL == "\n"
SP == " "

SpaceToks == {" ", "\n"}
IsSpace(t) == t \in SpaceToks

DigitToks == {"1", "3", "7"}
IsDigit(t) == t \in DigitToks

\* [A-Za-z0-9_] among the tokens of the alphabet (word atoms included)
WordToks == {"a", "b", "c", "e", "g", "j", "l", "n", "p", "s", "x", "y",
             "J", "P", "X", "Y", "E", "S", "o", "Document", "md", "html"} \cup DigitToks
IsWord(t) == t \in WordToks

\* str.lower() on one token
LowerTok(t) ==
    CASE t = "J" -> "j"
      [] t = "P" -> "p"
      [] t = "X" -> "x"
      [] t = "Y" -> "y"
      [] t = "E" -> "e"
      [] t = "S" -> "s"
      [] t = "Document" -> "document"
      [] OTHER -> t

Lower(s) == [k \in 1..Len(s) |-> LowerTok(s[k])]

\* the fragments the program emits
StepOpen == "<input type=\"number\" class=\"inline-input\" value="
StepOpenPI == "<input type=\"number\" class=\"inline-input prompt-item\" value="
MinAttr == "min="
SelfClose == "/>"
TextareaOpen == "<textarea id=\"textbox\" placeholder="
TextareaOpenPI == "<textarea class=\"prompt-item\" id=\"textbox\" placeholder="
TextareaClose == "</textarea>"
InlineOpen == "<input type=\"text\" class=\"inline-text\" placeholder="
InlineOpenPI == "<input type=\"text\" class=\"inline-text prompt-item\" placeholder="
ValueAttr == "value="
FileOpen == "<input type=\"file\" id=\"fileLoad\" class=\"prompt-item\""
FileOpenPI == "<input type=\"file\" id=\"fileLoad\" class=\"prompt-item prompt-item\""
SpanOpen == "<span class=\"comment\" data-no-clipboard=\"true\">"
SpanOpenPI == "<span class=\"comment prompt-item\" data-no-clipboard=\"true\">"
SpanClose == "</span>"
CodeOpen == "<code>"
CodeClose == "</code>"
PreOpen == "<pre><code>"
PreClose == "</code></pre>"
POpen == "<p class=\"prompt-item\">"
PClose == "</p>"
DivOpen == "<div class=\"checkbox-container\">"
DivClose == "</div>"
LabelOpen == "<label class=\"prompt-item\"><input type=\"checkbox\" id="
LabelClose == "</label>"
Checked == "checked"
HOpen == <<"<h1>", "<h2>", "<h3>", "<h4>", "<h5>", "<h6>">>
HClose == <<"</h1>", "</h2>", "</h3>", "</h4>", "</h5>", "</h6>">>

----------------------------------------------------------------------------
(* String helpers *)

Min(a, b) == IF a < b THEN a ELSE b
Max(a, b) == IF a < b THEN b ELSE a

\* t[s..] begins with pat
StartsAt(t, s, pat) ==
    /\ s >= 1
    /\ s + Len(pat) - 1 <= Len(t)
    /\ \A k \in 1..Len(pat) : t[s + k - 1] = pat[k]

\* the least index >= s where pat begins, 0 when there is none (str.find)
FindFrom(t, s, pat) ==
    LET hits == {k \in s..(Len(t) - Len(pat) + 1) : StartsAt(t, k, pat)}
    IN IF hits = {} THEN 0 ELSE CHOOSE k \in hits : \A m \in hits : k <= m

\* pat in t
Contains(t, pat) == FindFrom(t, 1, pat) > 0

Has(t, tok) == \E k \in 1..Len(t) : t[k] = tok

\* the index after the longest run of white space beginning at s (greedy \s*)
SkipSpace(t, s) ==
    LET stops == {k \in s..Len(t) : ~IsSpace(t[k])}
    IN IF stops = {} THEN Max(s, Len(t) + 1)
       ELSE CHOOSE k \in stops : \A m \in stops : k <= m

\* the index after the longest run of word characters beginning at s (greedy \w+)
SkipWord(t, s) ==
    LET stops == {k \in s..Len(t) : ~IsWord(t[k])}
    IN IF stops = {} THEN Max(s, Len(t) + 1)
       ELSE CHOOSE k \in stops : \A m \in stops : k <= m

\* the index after the longest run of digits beginning at s (greedy \d+)
SkipDigits(t, s) ==
    LET stops == {k \in s..Len(t) : ~IsDigit(t[k])}
    IN IF stops = {} THEN Max(s, Len(t) + 1)
       ELSE CHOOSE k \in stops : \A m \in stops : k <= m

\* str.lstrip(), str.rstrip(), str.strip()
LStrip(t) == SubSeq(t, SkipSpace(t, 1), Len(t))
RStrip(t) ==
    LET keep == {k \in 1..Len(t) : ~IsSpace(t[k])}
    IN IF keep = {} THEN <<>>
       ELSE SubSeq(t, 1, CHOOSE k \in keep : \A m \in keep : m <= k)
Strip(t) == RStrip(LStrip(t))

\* str.strip('"')
StripQuotes(t) ==
    LET keep == {k \in 1..Len(t) : t[k] # Q}
    IN IF keep = {} THEN <<>>
       ELSE SubSeq(t, CHOOSE k \in keep : \A m \in keep : k <= m,
                      CHOOSE k \in keep : \A m \in keep : m <= k)

RECURSIVE Flatten(_)
\* the concatenation of a sequence of texts
Flatten(ss) == IF ss = <<>> THEN <<>> ELSE Head(ss) \o Flatten(Tail(ss))

RECURSIVE JoinNL(_)
\* "\n".join(ss)
JoinNL(ss) ==
    IF ss = <<>> THEN <<>>
    ELSE IF Len(ss) = 1 THEN ss[1]
    ELSE ss[1] \o <<NL>> \o JoinNL(Tail(ss))

----------------------------------------------------------------------------
(* parse_custom_markdown: the language directive (lines 54-71) *)

LangPrefix == <<"#", "l", "a", "n", "g", ":">>

\* r'#lang:(\w+)#' matched at s: the index of the closing '#', 0 for no match
LangMatchEnd(t, s) ==
    IF ~StartsAt(t, s, LangPrefix) THEN 0
    ELSE LET w == s + Len(LangPrefix)
             e == SkipWord(t, w)
         IN IF e > w /\ e <= Len(t) /\ t[e] = "#" THEN e ELSE 0

RECURSIVE SearchLangFrom(_, _)
\* re.search(r'#lang:(\w+)#', md) scanning from s: group(1), <<>> for None
SearchLangFrom(t, s) ==
    IF s > Len(t) THEN <<>>
    ELSE LET e == LangMatchEnd(t, s)
         IN IF e > 0 THEN SubSeq(t, s + Len(LangPrefix), e - 1)
            ELSE SearchLangFrom(t, s + 1)

SearchLang(t) == SearchLangFrom(t, 1)

RECURSIVE RemoveLangFrom(_, _)
\* re.sub(r'#lang:\w+#', '', md): one left-to-right pass over the text
RemoveLangFrom(t, s) ==
    IF s > Len(t) THEN <<>>
    ELSE LET e == LangMatchEnd(t, s)
         IN IF e > 0 THEN RemoveLangFrom(t, e + 1)
            ELSE <<t[s]>> \o RemoveLangFrom(t, s + 1)

RemoveLang(t) == RemoveLangFrom(t, 1)

DefaultLang == <<"e", "n">>

\* lang = lang_match.group(1) if lang_match else 'en'
DetectLang(t) == IF SearchLang(t) = <<>> THEN DefaultLang ELSE SearchLang(t)

\* lang_key = lang.lower(); 'jp' -> 'ja'
LangKey(l) == IF Lower(l) = <<"j", "p">> THEN <<"j", "a">> ELSE Lower(l)

\* BUTTON_LABELS.get(lang_key, BUTTON_LABELS['en'])
ButtonLabel(key) ==
    CASE key = <<"e", "n">> -> "Generate Prompt &amp; Copy to Clipboard"
      [] key = <<"j", "a">> -> "label-ja"
      [] key = <<"f", "r">> -> "Generer le prompt et copier dans le presse-papiers"
      [] key = <<"i", "t">> -> "Genera prompt e copia negli appunti"
      [] key = <<"e", "s">> -> "Generar prompt y copiar al portapapeles"
      [] OTHER -> "Generate Prompt &amp; Copy to Clipboard"
----------------------------------------------------------------------------
(* parse_custom_markdown: the substitution passes (lines 76-126) *)

\* 1. r'<<\s*(?P<value>\d+)\s*>>' matched at s: the index of the last '>', 0 for no match
StepperEnd(t, s) ==
    IF ~StartsAt(t, s, <<"<", "<">>) THEN 0
    ELSE LET a == SkipSpace(t, s + 2)
             b == SkipDigits(t, a)
             c == SkipSpace(t, b)
         IN IF b > a /\ StartsAt(t, c, <<">", ">">>) THEN c + 1 ELSE 0

StepperValue(t, s) ==
    LET a == SkipSpace(t, s + 2) IN SubSeq(t, a, SkipDigits(t, a) - 1)

\* '<input type="number" class="inline-input" value="{}" min="1" />'
StepperHtml(value) ==
    <<StepOpen, Q>> \o value \o <<Q, SP, MinAttr, Q, "1", Q, SP, SelfClose>>

RECURSIVE SubStepper(_, _)
SubStepper(t, s) ==
    IF s > Len(t) THEN <<>>
    ELSE LET e == StepperEnd(t, s)
         IN IF e > 0 THEN StepperHtml(StepperValue(t, s)) \o SubStepper(t, e + 1)
            ELSE <<t[s]>> \o SubStepper(t, s + 1)

\* The placeholder:prefilled grammar between an opening of n brackets and a
\* closing of n brackets,
\*   open \s* (?P<placeholder>[^:]+?) \s* : \s* (?P<prefilled>.*?) \s* close
\* matched at s.  [^:]+? needs one character before the first colon; the
\* prefilled text is lazy, so it ends before the first closing run, and '.'
\* matches no newline.  BoxColon is the index of the colon, BoxClose the index
\* where the closing run begins; both are 0 when there is no match.
Brackets(n, ch) == [k \in 1..n |-> ch]

BoxColon(t, s, n) ==
    IF ~StartsAt(t, s, Brackets(n, "[")) THEN 0
    ELSE LET c == FindFrom(t, s + n, <<":">>)
         IN IF c > s + n THEN c ELSE 0

BoxClose(t, s, n) ==
    LET c == BoxColon(t, s, n)
    IN IF c = 0 THEN 0
       ELSE LET p == SkipSpace(t, c + 1)
                q == FindFrom(t, p, Brackets(n, "]"))
            IN IF q > 0 /\ ~Has(RStrip(SubSeq(t, p, q - 1)), NL) THEN q ELSE 0

\* match.group('placeholder').strip().strip('"')
BoxPlaceholder(t, s, n) == StripQuotes(Strip(SubSeq(t, s + n, BoxColon(t, s, n) - 1)))

\* match.group('prefilled').strip()
BoxPrefilled(t, s, n) == Strip(SubSeq(t, BoxColon(t, s, n) + 1, BoxClose(t, s, n) - 1))

\* f'<textarea id="textbox" placeholder="{placeholder}">{prefilled}</textarea>'
replace_textarea(placeholder, prefilled) ==
    <<TextareaOpen, Q>> \o placeholder \o <<Q, ">">> \o prefilled \o <<TextareaClose>>

\* f'<input type="text" class="inline-text" placeholder="{placeholder}" value="{prefilled}" />'
replace_inline_textbox(placeholder, prefilled) ==
    <<InlineOpen, Q>> \o placeholder \o <<Q, SP, ValueAttr, Q>> \o prefilled
        \o <<Q, SP, SelfClose>>

RECURSIVE SubTextarea(_, _)
\* 2. the triple-bracket pass
SubTextarea(t, s) ==
    IF s > Len(t) THEN <<>>
    ELSE LET q == BoxClose(t, s, 3)
         IN IF q > 0
            THEN replace_textarea(BoxPlaceholder(t, s, 3), BoxPrefilled(t, s, 3))
                     \o SubTextarea(t, q + 3)
            ELSE <<t[s]>> \o SubTextarea(t, s + 1)

RECURSIVE SubInline(_, _)
\* 2.1. the double-bracket pass
SubInline(t, s) ==
    IF s > Len(t) THEN <<>>
    ELSE LET q == BoxClose(t, s, 2)
         IN IF q > 0
            THEN replace_inline_textbox(BoxPlaceholder(t, s, 2), BoxPrefilled(t, s, 2))
                     \o SubInline(t, q + 2)
            ELSE <<t[s]>> \o SubInline(t, s + 1)

\* 3. r'\(\(\s*\)\)' matched at s: the index of the last ')', 0 for no match
FileEnd(t, s) ==
    IF ~StartsAt(t, s, <<"(", "(">>) THEN 0
    ELSE LET a == SkipSpace(t, s + 2)
         IN IF StartsAt(t, a, <<")", ")">>) THEN a + 1 ELSE 0

\* '<input type="file" id="fileLoad" class="prompt-item" />'
FileHtml == <<FileOpen, SP, SelfClose>>

RECURSIVE SubFile(_, _)
SubFile(t, s) ==
    IF s > Len(t) THEN <<>>
    ELSE LET e == FileEnd(t, s)
         IN IF e > 0 THEN FileHtml \o SubFile(t, e + 1)
            ELSE <<t[s]>> \o SubFile(t, s + 1)

\* 4. r'\(\*\s*(.*?)\s*\*\)' matched at s: the index where '*)' begins, 0 for no match
CommentClose(t, s) ==
    IF ~StartsAt(t, s, <<"(", "*">>) THEN 0
    ELSE LET p == SkipSpace(t, s + 2)
             q == FindFrom(t, p, <<"*", ")">>)
         IN IF q > 0 /\ ~Has(RStrip(SubSeq(t, p, q - 1)), NL) THEN q ELSE 0

\* f'<span class="comment" data-no-clipboard="true">{comment_text}</span>'
replace_comment(t, s) ==
    <<SpanOpen>> \o Strip(SubSeq(t, s + 2, CommentClose(t, s) - 1)) \o <<SpanClose>>

RECURSIVE SubComment(_, _)
SubComment(t, s) ==
    IF s > Len(t) THEN <<>>
    ELSE LET q == CommentClose(t, s)
         IN IF q > 0 THEN replace_comment(t, s) \o SubComment(t, q + 2)
            ELSE <<t[s]>> \o SubComment(t, s + 1)

\* 5. r'\{\{\{(.*?)\}\}\}' with DOTALL matched at s: the index where '}}}' begins
VerbatimClose(t, s) ==
    IF ~StartsAt(t, s, <<"{", "{", "{">>) THEN 0
    ELSE FindFrom(t, s + 3, <<"}", "}", "}">>)

replace_verbatim(content) ==
    IF Has(content, NL)
    THEN <<NL, PreOpen>> \o content \o <<PreClose, NL>>
    ELSE <<CodeOpen>> \o content \o <<CodeClose>>

RECURSIVE SubVerbatim(_, _)
SubVerbatim(t, s) ==
    IF s > Len(t) THEN <<>>
    ELSE LET q == VerbatimClose(t, s)
         IN IF q > 0
            THEN replace_verbatim(SubSeq(t, s + 3, q - 1)) \o SubVerbatim(t, q + 3)
            ELSE <<t[s]>> \o SubVerbatim(t, s + 1)

\* the six passes in the order of the code
Substitute(t) ==
    SubVerbatim(SubComment(SubFile(SubInline(SubTextarea(SubStepper(t, 1), 1), 1), 1), 1), 1)
----------------------------------------------------------------------------
(* parse_custom_markdown: the line-grouping pass (lines 129-188) *)

RECURSIVE SplitLines(_)
\* str.splitlines() for the one line break of the alphabet, "\n"
SplitLines(t) ==
    IF t = <<>> THEN <<>>
    ELSE LET n == FindFrom(t, 1, <<NL>>)
         IN IF n = 0 THEN <<t>>
            ELSE <<SubSeq(t, 1, n - 1)>> \o SplitLines(SubSeq(t, n + 1, Len(t)))

\* lines[i].lstrip().startswith("<pre><code>")
OpensBlock(l) == StartsAt(LStrip(l), 1, <<PreOpen>>)

\* lines[i].rstrip().endswith("</code></pre>")
ClosesBlock(l) == RStrip(l) # <<>> /\ RStrip(l)[Len(RStrip(l))] = PreClose

\* the line on which the inner loop of lines 136-141 breaks, 0 when it runs
\* to the end of the text
BlockClosingLine(ls, k) ==
    LET hits == {j \in k..Len(ls) : ClosesBlock(ls[j])}
    IN IF hits = {} THEN 0 ELSE CHOOSE j \in hits : \A m \in hits : j <= m

\* the last line the inner loop appends to verbatim_lines
BlockLastLine(ls, k) ==
    IF BlockClosingLine(ls, k) = 0 THEN Len(ls) ELSE BlockClosingLine(ls, k)

\* BlockCursor with the break taken before the cursor is moved
BlockCursor_BreakFirst(ls, k) ==
    IF BlockClosingLine(ls, k) = 0 THEN Len(ls) + 1 ELSE BlockClosingLine(ls, k)

\* the cursor when the inner loop is left: past the closing line (i += 1;
\* break), or past the last line (the while condition fails)
BlockCursor(ls, k) == BlockLastLine(ls, k) + 1

\* the number of '#' the line begins with
LeadingHashes(l) ==
    LET stops == {k \in 1..Len(l) : l[k] # "#"}
    IN IF stops = {} THEN Len(l)
       ELSE (CHOOSE k \in stops : \A m \in stops : k <= m) - 1

\* re.match(r'^(#{1,6})\s*(.+)$', line): len(group(1)), 0 for no match.
\* (.+) needs one character: a line of hashes alone gives one of them up.
HeaderLevel(l) ==
    IF Len(l) > LeadingHashes(l) THEN Min(LeadingHashes(l), 6)
    ELSE Min(LeadingHashes(l) - 1, 6)

\* header_match.group(2).strip()
HeaderText(l) == Strip(SubSeq(l, HeaderLevel(l) + 1, Len(l)))

DefaultTitle == <<"Document">>

\* lines 152-153
NewTitle(old, header_text) == IF old = DefaultTitle THEN header_text ELSE old

\* f'<h{header_level}>{header_text}</h{header_level}>'
HeaderHtml(l) == <<HOpen[HeaderLevel(l)]>> \o HeaderText(l) \o <<HClose[HeaderLevel(l)]>>

\* re.match(r'^\[(?:x|X| )\]', line)
IsCheckboxLine(l) ==
    Len(l) >= 3 /\ l[1] = "[" /\ l[2] \in {"x", "X", " "} /\ l[3] = "]"

\* cb_match of line 161 on a stripped checkbox line: (.+) needs one character
HasLabel(l) == IsCheckboxLine(l) /\ Len(l) > 3

\* cb_match.group('label').strip()
LabelText(l) == Strip(SubSeq(l, 4, Len(l)))

\* status == 'x' after .lower().strip()
IsChecked(l) == LowerTok(l[2]) = "x"

\* what re.sub(r'\W+', '', .) leaves of one token
WordOnly(t) ==
    CASE IsWord(t) -> <<t>>
      [] t = StepOpen -> <<"inputtypenumberclassinlineinputvalue">>
      [] t = MinAttr -> <<"min">>
      [] t = TextareaOpen -> <<"textareaidtextboxplaceholder">>
      [] t = TextareaClose -> <<"textarea">>
      [] t = InlineOpen -> <<"inputtypetextclassinlinetextplaceholder">>
      [] t = ValueAttr -> <<"value">>
      [] t = FileOpen -> <<"inputtypefileidfileLoadclasspromptitem">>
      [] t = SpanOpen -> <<"spanclasscommentdatanoclipboardtrue">>
      [] t = SpanClose -> <<"span">>
      [] t = CodeOpen -> <<"code">>
      [] t = CodeClose -> <<"code">>
      [] t = PreOpen -> <<"precode">>
      [] t = PreClose -> <<"codepre">>
      [] OTHER -> <<>>

\* lines 165-166: white space deleted, then every non-word character
CheckboxId(label) == Flatten([k \in 1..Len(label) |-> WordOnly(label[k])])

\* line 169
LabelHtml(l) ==
    <<LabelOpen, Q>> \o CheckboxId(LabelText(l)) \o <<Q>>
        \o (IF IsChecked(l) THEN <<SP, Checked>> ELSE <<>>)
        \o <<SP, SelfClose, SP>> \o LabelText(l) \o <<LabelClose>>

\* the cursor when the inner loop of line 159 is left
RunCursor(ls, k) ==
    LET stops == {j \in k..Len(ls) : ~IsCheckboxLine(Strip(ls[j]))}
    IN IF stops = {} THEN Len(ls) + 1
       ELSE CHOOSE j \in stops : \A m \in stops : j <= m

RECURSIVE CheckboxBlock_Prepended(_, _, _)
\* CheckboxBlock with each label put before the labels gathered so far
CheckboxBlock_Prepended(ls, from, to) ==
    IF from >= to THEN <<>>
    ELSE CheckboxBlock_Prepended(ls, from + 1, to)
             \o (IF HasLabel(Strip(ls[from])) THEN <<LabelHtml(Strip(ls[from]))>> ELSE <<>>)

RECURSIVE CheckboxBlock(_, _, _)
\* checkbox_block for the lines from..to-1 of a run
CheckboxBlock(ls, from, to) ==
    IF from >= to THEN <<>>
    ELSE (IF HasLabel(Strip(ls[from])) THEN <<LabelHtml(Strip(ls[from]))>> ELSE <<>>)
             \o CheckboxBlock(ls, from + 1, to)

\* lines 172-175
RunFragments(ls, from, to) ==
    IF CheckboxBlock(ls, from, to) = <<>> THEN <<>>
    ELSE <<(<<DivOpen>>)>> \o CheckboxBlock(ls, from, to) \o <<(<<DivClose>>)>>

ClassToks == {StepOpen, InlineOpen, FileOpen, SpanOpen}

\* re.sub(r'class="([^"]+)"', r'class="\1 prompt-item"', .) on one token
AddClassTok(t) ==
    CASE t = StepOpen -> StepOpenPI
      [] t = InlineOpen -> InlineOpenPI
      [] t = FileOpen -> FileOpenPI
      [] t = SpanOpen -> SpanOpenPI
      [] OTHER -> t

\* lines 179-182, on a line that begins with "<textarea"
MarkTextarea(l) ==
    IF \E k \in 1..Len(l) : l[k] \in ClassToks
    THEN [k \in 1..Len(l) |-> AddClassTok(l[k])]
    ELSE <<TextareaOpenPI>> \o Tail(l)

\* the else branch of lines 176-187: the fragments of one stripped line
OtherFragments(l) ==
    IF StartsAt(l, 1, <<TextareaOpen>>) THEN <<MarkTextarea(l)>>
    ELSE IF l # <<>> THEN <<(<<POpen>> \o l \o <<PClose>>)>>
    ELSE <<>>
----------------------------------------------------------------------------
(* parse_custom_markdown: style, script and document assembly (lines 190-356) *)

BodyOpen == "<div id=\"promptContent\">"
ButtonTag == "<button>"

\* line 190
HtmlBody(parts) == <<BodyOpen, NL>> \o JoinNL(parts) \o <<NL, DivClose>>

HasAny(t, toks) == \E k \in 1..Len(t) : t[k] \in toks

\* lines 193-257: the rules, each named by its selector, gated by a substring
\* test on html_body
StyleRules(hb) ==
    <<"body">>
        \o (IF Has(hb, HOpen[1]) THEN <<"h1">> ELSE <<>>)
        \o (IF HasAny(hb, {TextareaOpen, TextareaOpenPI}) THEN <<"textarea">> ELSE <<>>)
        \o (IF Has(hb, InlineOpen) THEN <<"input.inline-text">> ELSE <<>>)
        \o (IF Has(hb, ButtonTag) THEN <<"button">> ELSE <<>>)
        \o <<".result-box">>
        \o (IF Has(hb, DivOpen) THEN <<".checkbox-container">> ELSE <<>>)
        \o (IF Has(hb, LabelOpen) THEN <<"label">> ELSE <<>>)
        \o (IF Has(hb, SpanOpen) THEN <<".comment">> ELSE <<>>)
        \o (IF Has(hb, StepOpen) THEN <<".inline-input">> ELSE <<>>)

\* line 259
StyleBlock(hb) == <<"<style>", NL>> \o JoinNL([k \in 1..Len(StyleRules(hb)) |-> <<StyleRules(hb)[k]>>])
                      \o <<NL, "</style>">>

\* line 262
HasFileInput(hb) == HasAny(hb, {FileOpen, FileOpenPI})

\* lines 268-335: the script, each part named by what it does
ScriptBlock(hb) ==
    <<"<script>", "onGenerateClick">>
        \o (IF HasFileInput(hb)
            THEN <<"select .prompt-item, pre code, input[type='file']">>
            ELSE <<"select .prompt-item, pre code">>)
        \o <<"collect textarea p label code input-text">>
        \o (IF HasFileInput(hb) THEN <<"collect input-file">> ELSE <<>>)
        \o <<"join, copy, show">>
        \o (IF HasFileInput(hb) THEN <<"readFileAsText">> ELSE <<>>)
        \o <<"getElementText", "</script>">>

HtmlLangOpen == "<html lang="

\* DocLang with the lookup key written in place of the code as detected
DocLang_LookupKey(l) == LangKey(l)

\* line 338: the language code written into the document
DocLang(l) == l

\* lines 337-355
HtmlOutput(l, ttl, hb, label) ==
    <<"<!DOCTYPE html>", NL, HtmlLangOpen, Q>> \o DocLang(l) \o <<Q, ">", NL,
      "<head>", NL, "<meta charset=\"UTF-8\" />", NL, "<title>">> \o ttl
        \o <<"</title>", NL>> \o StyleBlock(hb) \o <<NL, "</head>", NL, "<body>", NL>>
        \o hb
        \o <<NL, NL, "<button id=\"generateButton\">", label, "</button>", NL, NL,
             "<div class=\"result-box\" id=\"resultPrompt\" hidden></div>", NL, NL>>
        \o ScriptBlock(hb) \o <<NL, NL, "</body>", NL, "</html>", NL>>

----------------------------------------------------------------------------
(* parse_custom_markdown as steps *)

NoValue == <<>>

\* lines 54-74
ExtractLanguage ==
    /\ pc = "extract"
    /\ lang' = DetectLang(md)
    /\ md' = RemoveLang(md)
    /\ button_label' = ButtonLabel(LangKey(DetectLang(md)))
    /\ title' = DefaultTitle
    /\ body_parts' = <<>>
    /\ pc' = "substitute"
    /\ UNCHANGED <<src, lines, i, returned, prompt, driverVars>>

\* lines 76-126
SubstitutionPasses ==
    /\ pc = "substitute"
    /\ md' = Substitute(md)
    /\ pc' = "split"
    /\ UNCHANGED <<src, lang, button_label, title, body_parts, lines, i, returned,
                   prompt, driverVars>>

\* lines 129-130
SplitIntoLines ==
    /\ pc = "split"
    /\ lines' = SplitLines(md)
    /\ i' = 1
    /\ pc' = "loop"
    /\ UNCHANGED <<src, md, lang, button_label, title, body_parts, returned,
                   prompt, driverVars>>

InLoop == pc = "loop" /\ i <= Len(lines)

\* lines 134-143: one iteration that takes the verbatim branch
VerbatimBlock ==
    /\ InLoop
    /\ OpensBlock(lines[i])
    /\ body_parts' = Append(body_parts, JoinNL(SubSeq(lines, i, BlockLastLine(lines, i))))
    /\ i' = BlockCursor(lines, i)
    /\ UNCHANGED <<pc, src, md, lang, button_label, title, lines, returned,
                   prompt, driverVars>>

\* lines 147-155: one iteration on a line that begins with '#'
HeaderLine ==
    /\ InLoop
    /\ ~OpensBlock(lines[i])
    /\ StartsAt(Strip(lines[i]), 1, <<"#">>)
    /\ IF HeaderLevel(Strip(lines[i])) > 0
       THEN /\ title' = NewTitle(title, HeaderText(Strip(lines[i])))
            /\ body_parts' = Append(body_parts, HeaderHtml(Strip(lines[i])))
       ELSE UNCHANGED <<title, body_parts>>
    /\ i' = i + 1
    /\ UNCHANGED <<pc, src, md, lang, button_label, lines, returned, prompt, driverVars>>

\* lines 157-175: one iteration that consumes a run of checkbox lines
CheckboxRun ==
    /\ InLoop
    /\ ~OpensBlock(lines[i])
    /\ IsCheckboxLine(Strip(lines[i]))
    /\ body_parts' = body_parts \o RunFragments(lines, i, RunCursor(lines, i))
    /\ i' = RunCursor(lines, i)
    /\ UNCHANGED <<pc, src, md, lang, button_label, title, lines, returned,
                   prompt, driverVars>>

\* lines 176-188: one iteration on any other line
OtherLine ==
    /\ InLoop
    /\ ~OpensBlock(lines[i])
    /\ ~StartsAt(Strip(lines[i]), 1, <<"#">>)
    /\ ~IsCheckboxLine(Strip(lines[i]))
    /\ body_parts' = body_parts \o OtherFragments(Strip(lines[i]))
    /\ i' = i + 1
    /\ UNCHANGED <<pc, src, md, lang, button_label, title, lines, returned,
                   prompt, driverVars>>

\* lines 190-356: the loop is left, the document is built and returned
Assemble ==
    /\ pc = "loop"
    /\ i > Len(lines)
    /\ returned' = [html |-> HtmlOutput(lang, title, HtmlBody(body_parts), button_label),
                    lang |-> lang]
    /\ pc' = "parsed"
    /\ UNCHANGED <<src, md, lang, button_label, title, body_parts, lines, i,
                   prompt, driverVars>>

ParseStep ==
    \/ ExtractLanguage
    \/ SubstitutionPasses
    \/ SplitIntoLines
    \/ VerbatimBlock
    \/ HeaderLine
    \/ CheckboxRun
    \/ OtherLine
    \/ Assemble

----------------------------------------------------------------------------
(* Source texts *)

\* the texts made of at most n pieces of P
Texts(P, n) == UNION {{Flatten(s) : s \in [1..k -> P]} : k \in 0..n}

\* a call parse_custom_markdown(text)
CallParse(text) ==
    /\ pc = "extract"
    /\ src = text
    /\ md = text
    /\ lang = NoValue
    /\ button_label = ""
    /\ title = NoValue
    /\ body_parts = <<>>
    /\ lines = <<>>
    /\ i = 1
    /\ returned = [html |-> NoValue, lang |-> NoValue]
    /\ prompt = NoValue
    /\ fs = <<>>
    /\ todo = <<>>
    /\ outArg = NoValue
    /\ output_file = NoValue
    /\ answer = NoValue
    /\ log = <<>>

\* the texts of at most n lines of L
LineTexts(L, n) == UNION {{JoinNL(s) : s \in [1..k -> L]} : k \in 0..n}

MaxLangPieces == 6
MaxVerbatimPieces == 3
MaxLines == 3

Directive(word) == LangPrefix \o word \o <<"#">>
Stepper3 == <<"<", "<", " ", "3", " ", ">", ">">>
BoxAB(n) == Brackets(n, "[") \o <<"a", ":", "b">> \o Brackets(n, "]")
CommentC == <<"(", "*", " ", "c", " ", "*", ")">>

\* directives, whole and in parts
LangPieces == {LangPrefix, <<"j", "p">>, <<"J", "P">>, <<"#">>}

\* verbatim markers around the other constructs
VerbatimPieces == {<<"{", "{", "{">>, <<"}", "}", "}">>, Stepper3, BoxAB(2), CommentC,
                   <<"a">>, <<NL>>, Directive(<<"j", "p">>)}

\* text boxes with an empty placeholder or an empty prefilled text, each with
\* the widget that has the empty part empty
EmptyPartForms ==
    UNION {{[source |-> Brackets(n, "[") \o ws \o <<":", "a">> \o Brackets(n, "]"),
             n |-> n, placeholder |-> <<>>, prefilled |-> <<"a">>],
            [source |-> Brackets(n, "[") \o <<"a", ":">> \o ws \o Brackets(n, "]"),
             n |-> n, placeholder |-> <<"a">>, prefilled |-> <<>>]}
           : n \in {2, 3}, ws \in {<<>>, <<SP>>}}

\* lines of every kind the grouping pass tells apart
LineSet == {<<"#", " ", "a">>, <<"#", " ", "Document">>, <<"#">>,
            <<"[", " ", "]", " ", "a">>, <<"[", "x", "]", " ", "b">>, <<"[", " ", "]">>,
            <<>>, <<"a">>,
            BoxAB(3), <<"a", " ">> \o BoxAB(3), BoxAB(3) \o <<" ">> \o BoxAB(2),
            <<PreOpen, "a">>, <<"b", PreClose>>, <<PreOpen, "a", PreClose>>}

\* a text that interleaves a heading, a paragraph, a checkbox group of two
\* and a verbatim block of two lines
InterleavedText ==
    JoinNL(<<(<<"#", " ", "a">>), (<<"b">>), (<<"[", " ", "]", " ", "a">>),
             (<<"[", "x", "]", " ", "b">>), (<<"{", "{", "{", "a", NL, "b", "}", "}", "}">>),
             (<<"a">>)>>)

\* lines with and without a button tag typed by the author
ButtonLines == {<<ButtonTag, "a">>, <<"a">>}

SourceTexts ==
    Texts(LangPieces, MaxLangPieces)
        \cup Texts(VerbatimPieces, MaxVerbatimPieces)
        \cup {f.source : f \in EmptyPartForms}
        \cup LineTexts(LineSet, MaxLines)
        \cup LineTexts(ButtonLines, MaxLines)
        \cup {InterleavedText}

Init == \E text \in SourceTexts : CallParse(text)

Next == ParseStep

Spec == Init /\ [][Next]_vars
----------------------------------------------------------------------------
(* main: the driver (lines 377-408) *)

NoFile == [kind |-> "none", data |-> <<>>]
File(data) == [kind |-> "file", data |-> data]

\* the index of the last tok of p, 0 when p has none (str.rfind)
LastIndex(p, tok) ==
    LET hits == {k \in 1..Len(p) : p[k] = tok}
    IN IF hits = {} THEN 0 ELSE CHOOSE k \in hits : \A m \in hits : m <= k

\* os.path.splitext(p)[0]: the extension begins at the last dot of the last
\* component, unless only dots come before it there
SplitExtRoot(p) ==
    LET sep == LastIndex(p, "/")
        dot == LastIndex(p, ".")
    IN IF dot > sep /\ \E k \in (sep + 1)..(dot - 1) : p[k] # "."
       THEN SubSeq(p, 1, dot - 1)
       ELSE p

\* lines 391-395
OutputFile(arg, input_file) ==
    IF arg # NoValue THEN arg ELSE SplitExtRoot(input_file) \o <<".", "html">>

\* IsYes with every answer but "n" taken for a yes
IsYes_AllButNo(ans) == Lower(Strip(ans)) # <<"n">>

\* line 399: overwrite in ('y', 'yes'), overwrite being the answer stripped
\* and lower-cased
IsYes(ans) == Lower(Strip(ans)) \in {<<"y">>, <<"y", "e", "s">>}

\* what input() may return
Answers == {<<"y">>, <<"y", "e", "s">>, <<" ", "Y", "E", "S", " ">>, <<"n">>, <<>>,
            <<"y", "e">>}

Outcome(input_file, what) == [input |-> input_file, outcome |-> what, answer |-> answer]

\* lines 377-380: the next input is taken; a missing one is reported
CheckInput ==
    /\ pc = "main"
    /\ todo # <<>>
    /\ IF fs[Head(todo)].kind # "file"
       THEN /\ log' = Append(log, [input |-> Head(todo), outcome |-> "not found",
                                    answer |-> NoValue])
            /\ todo' = Tail(todo)
            /\ pc' = "main"
       ELSE /\ pc' = "read"
            /\ UNCHANGED <<log, todo>>
    /\ UNCHANGED <<parseVars, prompt, fs, outArg, output_file, answer>>

\* lines 382-389: the input is read, which may fail, and parse_custom_markdown
\* is called on its content
ReadInput ==
    /\ pc = "read"
    /\ \E ok \in BOOLEAN :
        IF ok
        THEN /\ src' = fs[Head(todo)].data
             /\ md' = fs[Head(todo)].data
             /\ pc' = "extract"
             /\ UNCHANGED <<log, todo>>
        ELSE /\ log' = Append(log, [input |-> Head(todo), outcome |-> "read error",
                                     answer |-> NoValue])
             /\ todo' = Tail(todo)
             /\ pc' = "main"
             /\ UNCHANGED <<src, md>>
    /\ UNCHANGED <<lang, button_label, title, body_parts, lines, i, returned, prompt,
                   fs, outArg, output_file, answer>>

\* lines 391-397: the output path is chosen and looked up
ChooseOutput ==
    /\ pc = "parsed"
    /\ output_file' = OutputFile(outArg, Head(todo))
    /\ answer' = NoValue
    /\ pc' = IF fs[OutputFile(outArg, Head(todo))].kind # "none" THEN "ask" ELSE "write"
    /\ UNCHANGED <<parseVars, prompt, fs, todo, outArg, log>>

\* lines 398-401: the overwrite prompt
AskOverwrite ==
    /\ pc = "ask"
    /\ \E ans \in Answers :
        /\ answer' = ans
        /\ IF IsYes(ans)
           THEN /\ pc' = "write"
                /\ UNCHANGED <<log, todo>>
           ELSE /\ log' = Append(log, [input |-> Head(todo), outcome |-> "skipped",
                                        answer |-> ans])
                /\ todo' = Tail(todo)
                /\ pc' = "main"
    /\ UNCHANGED <<parseVars, prompt, fs, outArg, output_file>>

\* lines 403-408: the document is written; open() may fail, which leaves the
\* file as it was, or the write may fail after open() has truncated the file
WriteOutput ==
    /\ pc = "write"
    /\ \E how \in {"written", "open failed", "write failed"} :
        /\ fs' = CASE how = "written" -> [fs EXCEPT ![output_file] = File(returned.html)]
                   [] how = "open failed" -> fs
                   [] how = "write failed" -> [fs EXCEPT ![output_file] = File(<<>>)]
        /\ log' = Append(log, Outcome(Head(todo),
                                      IF how = "written" THEN "generated" ELSE "write error"))
    /\ todo' = Tail(todo)
    /\ pc' = "main"
    /\ UNCHANGED <<parseVars, prompt, outArg, output_file, answer>>

MainStep ==
    \/ CheckInput
    \/ ReadInput
    \/ ChooseOutput
    \/ AskOverwrite
    \/ WriteOutput

MaxInputs == 2

PathA == <<"a", ".", "md">>
PathB == <<"b", ".", "md">>
PathAOut == <<"a", ".", "html">>
PathBOut == <<"b", ".", "html">>
Paths == {PathA, PathB, PathAOut, PathBOut}

\* a template with a line of each kind, and a one-line text
TemplateDoc == JoinNL(<<(<<"#", " ", "a">>), (<<"[", "x", "]", " ", "b">>), (<<"a">>),
                        (<<PreOpen, "a", PreClose>>)>>)
PlainDoc == <<"b">>
OldOutput == <<"o">>

FileSystems ==
    {f \in [Paths -> {NoFile, File(TemplateDoc), File(PlainDoc), File(OldOutput)}] :
        /\ f[PathA] \in {NoFile, File(TemplateDoc)}
        /\ f[PathB] \in {NoFile, File(TemplateDoc), File(PlainDoc)}
        /\ f[PathAOut] \in {NoFile, File(OldOutput)}
        /\ f[PathBOut] \in {NoFile, File(OldOutput)}}

InputLists == UNION {[1..k -> {PathA, PathB}] : k \in 1..MaxInputs}

\* the state when main enters its loop over args.input_files
InitMain ==
    /\ pc = "main"
    /\ fs \in FileSystems
    /\ todo \in InputLists
    /\ outArg \in {NoValue, PathAOut}
    /\ output_file = NoValue
    /\ answer = NoValue
    /\ log = <<>>
    /\ src = NoValue
    /\ md = NoValue
    /\ lang = NoValue
    /\ button_label = ""
    /\ title = NoValue
    /\ body_parts = <<>>
    /\ lines = <<>>
    /\ i = 1
    /\ returned = [html |-> NoValue, lang |-> NoValue]
    /\ prompt = NoValue

NextMain == ParseStep \/ MainStep

SpecMain == InitMain /\ [][NextMain]_vars

----------------------------------------------------------------------------
(* The emitted script: the click handler of the generate button (lines 270-333),
   run on the elements of the emitted body *)

FindTok(t, s, tok) == FindFrom(t, s, <<tok>>)

NumberOpens == {StepOpen, StepOpenPI}
TextOpens == {InlineOpen, InlineOpenPI}
FileOpens == {FileOpen, FileOpenPI}
InputOpens == NumberOpens \cup TextOpens \cup FileOpens
TextareaOpens == {TextareaOpen, TextareaOpenPI}
SpanOpens == {SpanOpen, SpanOpenPI}

\* the tags that hold no text of their own
BareTags == SpanOpens \cup {SpanClose, CodeOpen, CodeClose, TextareaClose, PreOpen,
                            PreClose, POpen, PClose, LabelClose, DivOpen, DivClose}

\* what the user has done to the page: typed into the number, text and
\* textarea fields, toggled the checkboxes, chosen a file
WidgetStates == [typed : BOOLEAN, toggled : BOOLEAN, file : BOOLEAN]

TypedNumber == <<"7">>
TypedText == <<"x">>
FileContent == <<"y">>

\* the value attribute of the input element whose tag begins at s
NumberDefault(t, s) == SubSeq(t, s + 2, FindTok(t, s + 2, Q) - 1)
TextDefault(t, s) ==
    LET v == FindTok(t, s, ValueAttr) IN SubSeq(t, v + 2, FindTok(t, v + 2, Q) - 1)

\* node.value of the input element whose tag begins at s (lines 325-326)
InputValue(t, s, w) ==
    IF t[s] \in NumberOpens THEN (IF w.typed THEN TypedNumber ELSE NumberDefault(t, s))
    ELSE IF t[s] \in TextOpens THEN (IF w.typed THEN TypedText ELSE TextDefault(t, s))
    ELSE <<>>

\* el.value of the textarea whose tag begins at s (line 279)
TextareaValue(t, s, w) ==
    IF w.typed THEN TypedText
    ELSE SubSeq(t, FindTok(t, s, ">") + 1, FindTok(t, s, TextareaClose) - 1)

RECURSIVE TextContent(_, _, _)
\* node.textContent of the nodes written at s..e: the text, without the tags
\* and without what the input elements hold
TextContent(t, s, e) ==
    IF s > e THEN <<>>
    ELSE IF t[s] \in InputOpens \cup {LabelOpen}
         THEN TextContent(t, FindTok(t, s, SelfClose) + 1, e)
    ELSE IF t[s] \in TextareaOpens THEN TextContent(t, FindTok(t, s, ">") + 1, e)
    ELSE IF t[s] \in BareTags THEN TextContent(t, s + 1, e)
    ELSE <<t[s]>> \o TextContent(t, s + 1, e)

\* the tag that closes the element opened at s
CloseOf(t, s) ==
    CASE t[s] \in SpanOpens -> FindTok(t, s, SpanClose)
      [] t[s] = CodeOpen -> FindTok(t, s, CodeClose)
      [] t[s] \in TextareaOpens -> FindTok(t, s, TextareaClose)

RECURSIVE ChildText(_, _, _, _)
\* lines 322-331: over the child nodes written at s..e, an input child gives
\* its value when it is a text or number field, any other child its textContent
ChildText(t, s, e, w) ==
    IF s > e THEN <<>>
    ELSE IF t[s] \in InputOpens
         THEN InputValue(t, s, w) \o ChildText(t, FindTok(t, s, SelfClose) + 1, e, w)
    ELSE IF t[s] \in SpanOpens \cup TextareaOpens \cup {CodeOpen}
         THEN TextContent(t, s, CloseOf(t, s)) \o ChildText(t, CloseOf(t, s) + 1, e, w)
    ELSE <<t[s]>> \o ChildText(t, s + 1, e, w)

RECURSIVE CollapseSpace(_)
\* text.replace(/\s+/g, " ") on a text that begins with no white space
CollapseSpace(s) ==
    IF s = <<>> THEN <<>>
    ELSE IF IsSpace(Head(s)) THEN <<SP>> \o CollapseSpace(LStrip(s))
    ELSE <<Head(s)>> \o CollapseSpace(Tail(s))

\* lines 321-333
getElementText(t, s, e, w) == CollapseSpace(Strip(ChildText(t, s, e, w)))

\* checkbox.checked of the label opened at s
CheckboxChecked(t, s, w) ==
    Has(SubSeq(t, s, FindTok(t, s, SelfClose)), Checked) # w.toggled

RECURSIVE PromptItems(_, _, _)
\* lines 271-303: promptItems, from the elements of the body t that the
\* selector matches, in document order from s on
PromptItems(t, s, w) ==
    IF s > Len(t) THEN <<>>
    ELSE (CASE t[s] = TextareaOpenPI -> <<TextareaValue(t, s, w)>>
            [] t[s] = POpen -> <<getElementText(t, s + 1, FindTok(t, s, PClose) - 1, w)>>
            [] t[s] = LabelOpen ->
                 IF CheckboxChecked(t, s, w)
                 THEN <<getElementText(t, FindTok(t, s, SelfClose) + 1,
                                       FindTok(t, s, LabelClose) - 1, w)>>
                 ELSE <<>>
            [] t[s] = PreOpen -> <<TextContent(t, s + 1, FindTok(t, s, PreClose) - 1)>>
            [] t[s] = InlineOpenPI -> <<InputValue(t, s, w)>>
            [] t[s] \in FileOpens -> IF w.file THEN <<FileContent>> ELSE <<>>
            [] OTHER -> <<>>)
         \o PromptItems(t, s + 1, w)

\* line 304
PromptText(parts, w) == JoinNL(PromptItems(JoinNL(parts), 1, w))

\* the generate button is clicked on the loaded document; line 310 shows the
\* prompt in the result box
GenerateClick ==
    /\ pc = "parsed"
    /\ \E w \in WidgetStates : prompt' = PromptText(body_parts, w)
    /\ pc' = "shown"
    /\ UNCHANGED <<parseVars, driverVars>>

\* the user goes back to the widgets
EditWidgets ==
    /\ pc = "shown"
    /\ pc' = "parsed"
    /\ UNCHANGED <<parseVars, driverVars, prompt>>

MaxPageLines == 2

CommentLine == <<"a", " ">> \o CommentC
PageLines ==
    { CommentLine,
      CommentC,
      <<"[", "x", "]", " ">> \o CommentLine,
      <<"[", " ", "]", " ", "b">>,
      <<"a", " ">> \o Stepper3,
      BoxAB(2),
      BoxAB(3),
      <<"(", "(", ")", ")">>,
      <<"#", " ", "a">>,
      <<PreOpen, "a", " ", " ", "b", PreClose>> }

PageTexts == LineTexts(PageLines, MaxPageLines)

InitPage == \E text \in PageTexts : CallParse(text)

NextPage == ParseStep \/ GenerateClick \/ EditWidgets

SpecPage == InitPage /\ [][NextPage]_vars

----------------------------------------------------------------------------
(* Reading the emitted document back *)

\* the value of the lang attribute of the document's html tag
HtmlLangAttr(doc) ==
    LET k == FindFrom(doc, 1, <<HtmlLangOpen, Q>>)
    IN SubSeq(doc, k + 2, FindFrom(doc, k + 2, <<Q>>) - 1)

\* the text of the document's title element
DocTitle(doc) ==
    LET k == FindFrom(doc, 1, <<"<title>">>)
    IN SubSeq(doc, k + 1, FindFrom(doc, k + 1, <<"</title>">>) - 1)

\* the label of the document's generate button
DocButtonLabel(doc) == doc[FindFrom(doc, 1, <<"<button id=\"generateButton\">">>) + 1]

RECURSIVE CodeContents(_, _)
\* the contents of the inline and block code wrappers of a text, in order
CodeContents(t, s) ==
    IF s > Len(t) THEN <<>>
    ELSE IF t[s] = CodeOpen /\ FindFrom(t, s + 1, <<CodeClose>>) > 0
    THEN <<SubSeq(t, s + 1, FindFrom(t, s + 1, <<CodeClose>>) - 1)>>
             \o CodeContents(t, FindFrom(t, s + 1, <<CodeClose>>) + 1)
    ELSE IF t[s] = PreOpen /\ FindFrom(t, s + 1, <<PreClose>>) > 0
    THEN <<SubSeq(t, s + 1, FindFrom(t, s + 1, <<PreClose>>) - 1)>>
             \o CodeContents(t, FindFrom(t, s + 1, <<PreClose>>) + 1)
    ELSE CodeContents(t, s + 1)

RECURSIVE SourceVerbatims(_, _)
\* the contents c of the spans {{{c}}} of a source text, in order
SourceVerbatims(t, s) ==
    IF s > Len(t) THEN <<>>
    ELSE IF StartsAt(t, s, <<"{", "{", "{">>) /\ FindFrom(t, s + 3, <<"}", "}", "}">>) > 0
    THEN <<SubSeq(t, s + 3, FindFrom(t, s + 3, <<"}", "}", "}">>) - 1)>>
             \o SourceVerbatims(t, FindFrom(t, s + 3, <<"}", "}", "}">>) + 3)
    ELSE SourceVerbatims(t, s + 1)

----------------------------------------------------------------------------
(* Claims *)

\* C2: verbatim content is rendered exactly as captured: when the document is
\* returned, the contents of its code wrappers are, in order, the contents c
\* of the source's spans {{{c}}} (for a source that types no code wrapper of
\* its own), also when c holds a widget pattern.
C2_VerbatimRenderedAsCaptured ==
    (pc = "parsed" /\ ~Has(src, PreOpen) /\ ~Has(src, PreClose))
        => CodeContents(HtmlBody(body_parts), 1) = SourceVerbatims(src, 1)

\* a directive #lang:<word characters># begins somewhere in t
HasDirective(t) == \E s \in 1..Len(t) : LangMatchEnd(t, s) > 0

\* C3: directive removal strips every occurrence and is idempotent: the text
\* left after the language directive is extracted holds no match of
\* #lang:<word characters>#, and neither does the returned document.
C3_NoDirectiveLeft ==
    /\ pc = "substitute" => ~HasDirective(md)
    /\ pc = "parsed" => ~HasDirective(returned.html)

\* the places <<s, e>> of the directives of t: #lang: begins at s, word
\* characters (one at least) fill s+6 .. e-1, and the closing # is at e
DirectivePlaces(t) ==
    {se \in (1..Len(t)) \X (1..Len(t)) :
        /\ StartsAt(t, se[1], LangPrefix)
        /\ se[2] > se[1] + Len(LangPrefix)
        /\ t[se[2]] = "#"
        /\ \A k \in (se[1] + Len(LangPrefix))..(se[2] - 1) : IsWord(t[k])}

\* the token of the first directive of t as written, "en" when t has none
FirstDirectiveToken(t) ==
    IF DirectivePlaces(t) = {} THEN <<"e", "n">>
    ELSE LET first == CHOOSE se \in DirectivePlaces(t) :
                          \A o \in DirectivePlaces(t) : se[1] <= o[1]
         IN SubSeq(t, first[1] + Len(LangPrefix), first[2] - 1)

\* C4: the language code returned equals the lang attribute of the emitted
\* document, and both are the token of the source's first directive as
\* written ("en" without a directive); jp and ja, in any case, only select
\* the Japanese button label.
C4_LangAsWritten ==
    pc = "parsed" =>
        /\ returned.lang = HtmlLangAttr(returned.html)
        /\ returned.lang = FirstDirectiveToken(src)
        /\ DocButtonLabel(returned.html) =
               (IF Lower(FirstDirectiveToken(src)) \in {<<"j", "p">>, <<"j", "a">>}
                THEN "label-ja" ELSE "Generate Prompt &amp; Copy to Clipboard")

\* C4's case: a source with more than one directive, the first spelt JP
C4_Witness ==
    /\ pc = "parsed"
    /\ returned.lang = <<"J", "P">>
    /\ Cardinality(DirectivePlaces(src)) >= 2
    /\ DocButtonLabel(returned.html) = "label-ja"

IsHeaderFragment(f) == f # <<>> /\ \E n \in 1..6 : f[1] = HOpen[n]

\* the text of the first heading fragment of the body, the default without one
FirstHeadingText(parts) ==
    LET hs == {k \in 1..Len(parts) : IsHeaderFragment(parts[k])}
    IN IF hs = {} THEN <<"Document">>
       ELSE LET f == parts[CHOOSE k \in hs : \A m \in hs : k <= m]
            IN SubSeq(f, 2, Len(f) - 1)

\* C5: the document title is the text of the first heading the grouping pass
\* met, whatever that text is, and "Document" when it met none.
C5_TitleIsFirstHeading ==
    pc = "parsed" => DocTitle(returned.html) = FirstHeadingText(body_parts)

\* C6: every multi-line text box produced from a [[[placeholder:prefilled]]]
\* span carries prompt-item in its own class attribute in the emitted body
\* (for a source without verbatim markers), wherever the span is on its line.
C6_TextareaAlwaysCollectible ==
    (pc = "parsed" /\ ~Has(src, "{") /\ Contains(src, Brackets(3, "[")))
        => ~Has(HtmlBody(body_parts), TextareaOpen)

IsCheckboxFragment(f) ==
    f # <<>> /\ f[1] \in {DivOpen, DivClose, LabelOpen}

RECURSIVE CheckboxFragments(_)
\* the container and label fragments of the body, in order
CheckboxFragments(parts) ==
    IF parts = <<>> THEN <<>>
    ELSE (IF IsCheckboxFragment(Head(parts)) THEN <<Head(parts)>> ELSE <<>>)
             \o CheckboxFragments(Tail(parts))

\* line k is a checkbox line: a marker followed by a label
Labelled(ls, k) == k \in 1..Len(ls) /\ HasLabel(Strip(ls[k]))

\* what line k owes the body: its label, after an opening fragment when it
\* begins a run, before a closing fragment when it ends one
OwedByLine(ls, k) ==
    IF ~Labelled(ls, k) THEN <<>>
    ELSE (IF Labelled(ls, k - 1) THEN <<>> ELSE <<(<<DivOpen>>)>>)
             \o <<(<<LabelOpen, Q>> \o CheckboxId(LabelText(Strip(ls[k]))) \o <<Q>>
                   \o (IF Strip(ls[k])[2] \in {"x", "X"} THEN <<SP, Checked>> ELSE <<>>)
                   \o <<SP, SelfClose, SP>> \o LabelText(Strip(ls[k])) \o <<LabelClose>>)>>
             \o (IF Labelled(ls, k + 1) THEN <<>> ELSE <<(<<DivClose>>)>>)

\* C7: each maximal run of consecutive checkbox lines yields exactly one
\* container: an opening fragment, one label per line of the run in source
\* order, a closing fragment (for a text with no verbatim block).
C7_OneContainerPerRun ==
    (pc = "parsed" /\ \A k \in 1..Len(lines) : ~OpensBlock(lines[k]))
        => CheckboxFragments(body_parts)
               = Flatten([k \in 1..Len(lines) |-> OwedByLine(lines, k)])

\* the widget of a text box of n brackets
BoxWidget(n, placeholder, prefilled) ==
    IF n = 3 THEN replace_textarea(placeholder, prefilled)
    ELSE replace_inline_textbox(placeholder, prefilled)

\* C8: an empty placeholder or an empty prefilled text does not suppress
\* substitution: [[[:a]]], [[[a:]]], [[:a]] and [[a:]], with or without a
\* space in the empty part, each become the text-box widget with that part
\* empty.
C8_EmptyPartsSubstituted ==
    pc = "split" =>
        \A f \in EmptyPartForms :
            src = f.source => md = BoxWidget(f.n, f.placeholder, f.prefilled)

\* C9: the grouping pass always terminates and the document is returned: each
\* iteration of the loop keeps the cursor on a line or one past the last and
\* moves it forward by at least one (by exactly one line on a verbatim block
\* opened and closed on the same line, to the end on a block that is never
\* closed), and the step that leaves the loop returns the document.
C9_CursorAdvances ==
    [][/\ InLoop =>
            /\ pc' = "loop"
            /\ i' > i
            /\ i' <= Len(lines) + 1
            /\ lines' = lines
            /\ (OpensBlock(lines[i]) /\ ClosesBlock(lines[i])) => i' = i + 1
            /\ (OpensBlock(lines[i]) /\ \A k \in i..Len(lines) : ~ClosesBlock(lines[k]))
                   => i' = Len(lines) + 1
       /\ (pc = "loop" /\ ~InLoop) =>
            /\ i = Len(lines) + 1
            /\ pc' = "parsed"
            /\ returned'.html # NoValue]_vars

\* C9's case: the pass has consumed a one-line block and then a block that is
\* never closed, which took the remaining two lines
C9_Witness ==
    /\ pc = "loop"
    /\ Len(lines) = 3
    /\ i = 4
    /\ OpensBlock(lines[1]) /\ ClosesBlock(lines[1])
    /\ OpensBlock(lines[2])
    /\ ~ClosesBlock(lines[2]) /\ ~ClosesBlock(lines[3])
    /\ Len(body_parts) = 2
RECURSIVE InComment(_, _, _)
\* the positions of the source t, from s on, that lie inside a (* ... *)
\* comment; open is where the comment being read closes, 0 outside one
InComment(t, s, open) ==
    IF s > Len(t) THEN {}
    ELSE IF open > 0
         THEN (IF s < open THEN {s} ELSE {}) \cup InComment(t, s + 1, IF s > open THEN 0 ELSE open)
    ELSE IF CommentClose(t, s) > 0
         THEN InComment(t, s + 2, CommentClose(t, s))
    ELSE InComment(t, s + 1, 0)

\* the words the source has inside its comments and nowhere else
CommentOnlyWords(t) ==
    {t[k] : k \in {j \in InComment(t, 1, 0) : IsWord(t[j])}}
        \ {t[k] : k \in (1..Len(t)) \ InComment(t, 1, 0)}

\* C1: the text the click handler assembles holds no word that the source has
\* only inside its (* ... *) comments, whatever the widgets hold.
C1_CommentsNotCollected ==
    pc = "shown" => \A k \in 1..Len(prompt) : prompt[k] \notin CommentOnlyWords(src)

\* the rules of the document's style block, by selector
DocStyleRules(doc) ==
    LET k == FindFrom(doc, 1, <<"<style>">>)
    IN {doc[j] : j \in (k + 1)..(FindFrom(doc, k, <<"</style>">>) - 1)} \ {NL}

GenerateButton == "<button id=\"generateButton\">"

\* C11: the generate button is emitted in every document, and so is its
\* style rule, also for a source that types no button tag.
C11_ButtonRuleAlwaysPresent ==
    pc = "parsed" =>
        /\ Has(returned.html, GenerateButton)
        /\ "button" \in DocStyleRules(returned.html)

\* a heading line: 1 to 6 # characters, a space, then text (l is trimmed)
IsHeadingLine(l) ==
    /\ LeadingHashes(l) \in 1..6
    /\ Len(l) > LeadingHashes(l) + 1
    /\ IsSpace(l[LeadingHashes(l) + 1])

\* the collectible paragraph fragment holding the text l
ParagraphOf(l) == <<POpen>> \o l \o <<PClose>>

\* C12: in the grouping pass only blank lines contribute nothing: an
\* iteration on a blank line adds no fragment, and an iteration on a
\* non-blank trimmed line outside a verbatim block that is no heading line, no
\* checkbox line with a label and no multi-line text box fragment adds
\* exactly the paragraph fragment of that line and moves on by one line.
C12_OnlyBlankLinesDropped ==
    [][(InLoop /\ ~OpensBlock(lines[i])) =>
            /\ Strip(lines[i]) = <<>> => body_parts' = body_parts
            /\ (/\ Strip(lines[i]) # <<>>
                /\ ~IsHeadingLine(Strip(lines[i]))
                /\ ~HasLabel(Strip(lines[i]))
                /\ ~StartsAt(Strip(lines[i]), 1, <<TextareaOpen>>))
                   => /\ body_parts' = Append(body_parts, ParagraphOf(Strip(lines[i])))
                      /\ i' = i + 1]_vars

\* the fragments an iteration has added to the body
AddedParts == SubSeq(body_parts', Len(body_parts) + 1, Len(body_parts'))

\* what line k of ls gives the body when it is grouped outside a verbatim
\* block: a heading, a label, a text box or a paragraph, or nothing
LineParts(ls, k) ==
    IF StartsAt(Strip(ls[k]), 1, <<"#">>)
    THEN (IF HeaderLevel(Strip(ls[k])) > 0 THEN <<HeaderHtml(Strip(ls[k]))>> ELSE <<>>)
    ELSE IF IsCheckboxLine(Strip(ls[k]))
    THEN (IF HasLabel(Strip(ls[k])) THEN <<LabelHtml(Strip(ls[k]))>> ELSE <<>>)
    ELSE OtherFragments(Strip(ls[k]))

\* parts without the fragments that open and close a checkbox container
WithoutContainer(parts) ==
    Flatten([k \in 1..Len(parts) |->
                IF parts[k] \in {<<DivOpen>>, <<DivClose>>} THEN <<>> ELSE <<parts[k]>>])

\* C13: the body keeps source line order and each line goes to one construct
\* at most: an iteration of the grouping loop leaves the fragments already in
\* the body where they are, takes the lines from the cursor to the new cursor,
\* which is further on, and adds after them the fragments of those lines in
\* line order: one fragment joining them for a verbatim block, else the
\* fragment of each line in turn, the labels of a group inside one container.
C13_BodyKeepsLineOrder ==
    [][InLoop =>
          /\ i' > i
          /\ lines' = lines
          /\ Len(body_parts') >= Len(body_parts)
          /\ SubSeq(body_parts', 1, Len(body_parts)) = body_parts
          /\ OpensBlock(lines[i]) => AddedParts = <<JoinNL(SubSeq(lines, i, i' - 1))>>
          /\ ~OpensBlock(lines[i]) =>
                /\ WithoutContainer(AddedParts)
                       = Flatten([k \in 1..(i' - i) |-> LineParts(lines, i + k - 1)])
                /\ AddedParts # WithoutContainer(AddedParts)
                       => /\ AddedParts[1] = <<DivOpen>>
                          /\ AddedParts[Len(AddedParts)] = <<DivClose>>
                          /\ Len(AddedParts) = Len(WithoutContainer(AddedParts)) + 2]_vars

\* C13's case: the interleaved text has been grouped, its heading, paragraph,
\* checkbox group, verbatim block and last paragraph in that order
C13_Witness ==
    /\ pc = "parsed"
    /\ src = InterleavedText
    /\ Len(body_parts) = 8
    /\ body_parts[1] = HeaderHtml(<<"#", " ", "a">>)
    /\ body_parts[2] = <<POpen, "b", PClose>>
    /\ body_parts[3] = <<DivOpen>>
    /\ body_parts[4] = LabelHtml(<<"[", " ", "]", " ", "a">>)
    /\ body_parts[5] = LabelHtml(<<"[", "x", "]", " ", "b">>)
    /\ body_parts[6] = <<DivClose>>
    /\ body_parts[7] = <<PreOpen, "a", NL, "b", PreClose>>
    /\ body_parts[8] = <<POpen, "a", PClose>>

\* the answers that are affirmative: y or yes, in any case, white space around
YesAnswers == {<<"y">>, <<"y", "e", "s">>, <<" ", "Y", "E", "S", " ">>}

LastOutcome(l) == l[Len(l)].outcome

\* C10: the driver changes a file that exists only when it writes its output
\* path after an affirmative answer to the overwrite prompt; any other answer
\* leaves every file as it is; and after such an answer, a missing input, a
\* read failure or a write failure the driver is back at the head of its loop
\* with the remaining inputs.
C10_OverwriteOnlyAfterYes ==
    [][/\ \A p \in Paths :
            (fs[p].kind = "file" /\ fs'[p] # fs[p])
                => (pc = "write" /\ p = output_file /\ answer \in YesAnswers)
       /\ (pc = "ask" /\ answer' \notin YesAnswers)
            => (fs' = fs /\ log' # log /\ LastOutcome(log') = "skipped")
       /\ (log' # log /\ LastOutcome(log') \in {"skipped", "not found", "read error",
                                                  "write error"})
            => (pc' = "main" /\ todo # <<>> /\ todo' = Tail(todo))]_vars

\* C10's case: the first input's output was skipped on an answer that is no
\* yes, and the second input's output, which existed, was then overwritten
\* after " YES "
C10_Witness ==
    /\ pc = "main"
    /\ Len(log) = 2
    /\ log[1].outcome = "skipped" /\ log[1].answer = <<"y", "e">>
    /\ log[2].outcome = "generated" /\ log[2].answer = <<" ", "Y", "E", "S", " ">>
    /\ fs[output_file] = File(returned.html)

====
